---- MODULE Spec2Model ----
(***************************************************************************)
(* McpServerManager (src/server-manager.ts): a name-keyed registry of MCP  *)
(* clients with connect / disconnect / config-load operations and tool     *)
(* queries.  Every async method is cut at its awaits: one action is one    *)
(* synchronous run of the method, from a resumption to the next await.     *)
(* Several callers may have a method in flight at the same time.           *)
(*   Spec       connect / disconnect / disconnectAll / load, two callers   *)
(*   SpecQuery  the queries against connect / disconnect, two callers      *)
(*   SpecSeq    every method, one caller: calls never overlap              *)
(*   SpecCtor   the constructor with its options, then one caller          *)
(***************************************************************************)
EXTENDS Integers, Sequences, FiniteSets, TLC

\* ---------------------------------------------------------------- bounds
MaxClients == 2          \* Client objects constructed in one behaviour

Callers == {"p1", "p2"}    \* callers that may have a method in flight
Names == {"a", "b"}      \* server names
Paths == {"absent", "cfg"}   \* a configuration path, or none
NoClient == 0            \* "undefined" result of Map.get

\* ------------------------------------------------------------- the state
VARIABLES
  clients,   \* this.clients: insertion-ordered Map, a sequence of [name, client]
  nextId,    \* identity of the next Client object to be constructed
  configPath, \* this.configPath, fixed by the constructor
  closed,    \* Client objects whose close() has resolved
  call       \* per caller: the method in flight, its locals and its outcome

vars == <<clients, nextId, closed, configPath, call>>

\* --------------------------------------------------- Map<string, Client>
RECURSIVE IndexOf(_, _, _)
IndexOf(m, n, i) ==
  IF i > Len(m) THEN 0
  ELSE IF m[i].name = n THEN i ELSE IndexOf(m, n, i + 1)

MapHas(m, n) == IndexOf(m, n, 1) # 0

MapGet(m, n) == IF MapHas(m, n) THEN m[IndexOf(m, n, 1)].client ELSE NoClient

\* Map.set: an existing key keeps its position and takes the new value
MapSet(m, n, c) ==
  IF MapHas(m, n)
  THEN [m EXCEPT ![IndexOf(m, n, 1)] = [name |-> n, client |-> c]]
  ELSE Append(m, [name |-> n, client |-> c])

MapDelete(m, n) == SelectSeq(m, LAMBDA e : e.name # n)

MapKeys(m) == [i \in 1..Len(m) |-> m[i].name]

getConnectedServers == MapKeys(clients)

listServers == getConnectedServers

\* variant: a missing entry yields a client object instead of throwing
getClientLenient(n) == IF MapHas(clients, n) THEN MapGet(clients, n) ELSE 1

\* getClient: the client, or NoClient where the code throws 'Not connected'
getClient(n) == MapGet(clients, n)

Range(s) == {s[i] : i \in 1..Len(s)}

\* ------------------------------------------------------ the call records
\* the arguments of a query method, and their defaults
NoArgs == [toolName |-> <<>>, pattern |-> <<>>, searchIn |-> "both",
           caseSensitive |-> FALSE]

Idle ==
  [op |-> "idle", pc |-> "idle", name |-> "", client |-> NoClient,
   todo |-> <<>>, outcome |-> "none", err |-> "", result |-> <<>>,
   sent |-> 0, handshakes |-> 0, base |-> <<>>, args |-> NoArgs, log |-> <<>>,
   handler |-> "caller"]

\* caller p starts a method, or its method moves on, with record r
Start(p, r) == call' = [call EXCEPT ![p] = r]

Update(p, r) == call' = [call EXCEPT ![p] = r]

Throw(r, e) == [r EXCEPT !.pc = "done", !.outcome = "error", !.err = e]

Return(r) == [r EXCEPT !.pc = "done", !.outcome = "ok"]

\* ---------------------------------------------------------- connectToServer
ParamTypes == {"absent", "stdio", "http"}
ParamCommands == {"absent", "empty", "cmd"}
ParamUrls == {"absent", "empty", "unparseable", "valid"}
Params == [type : ParamTypes, command : ParamCommands, url : ParamUrls]

\* params.type || (params.command ? "stdio" : "http")
TransportType(params) ==
  IF params.type # "absent" THEN params.type
  ELSE IF params.command = "cmd" THEN "stdio" ELSE "http"

\* the synchronous checks of connectToServer up to `new Client`:
\* "" when a transport is built, else the error thrown
ValidateParams(params) ==
  IF TransportType(params) = "http"
  THEN IF params.url \in {"absent", "empty"} THEN "RequiresUrl"
       ELSE IF params.url = "unparseable" THEN "TypeErrorInvalidUrl"
       ELSE ""
  ELSE IF params.command \in {"absent", "empty"} THEN "RequiresCommand"
       ELSE ""

\* variant: the name is never found to be taken
AlreadyConnectedNever(n) == FALSE

\* `if (this.clients.has(serverName))` at the head of connectToServer
AlreadyConnected(n) == MapHas(clients, n)

\* connectToServer up to `await client.connect(transport)`
ConnectBegin(p, n, params) ==
  /\ call[p].pc = "idle"
  /\ LET r == [Idle EXCEPT !.op = "connect", !.name = n] IN
     IF AlreadyConnected(n)
     THEN Start(p, Throw(r, "AlreadyConnected")) /\ UNCHANGED nextId
     ELSE IF ValidateParams(params) # ""
     THEN Start(p, Throw(r, ValidateParams(params))) /\ UNCHANGED nextId
     ELSE /\ nextId <= MaxClients
          /\ nextId' = nextId + 1
          /\ Start(p, [r EXCEPT !.pc = "handshake", !.client = nextId,
                                !.handshakes = 1])
  /\ UNCHANGED <<clients, closed, configPath>>

\* client.connect resolved: this.clients.set(serverName, client)
ConnectHandshakeOk(p) ==
  /\ call[p].op = "connect" /\ call[p].pc = "handshake"
  /\ clients' = MapSet(clients, call[p].name, call[p].client)
  /\ Update(p, Return(call[p]))
  /\ UNCHANGED <<nextId, closed, configPath>>

\* variant: the client is registered before the handshake is known to succeed
ConnectHandshakeFailKeeps(p) ==
  /\ call[p].op = "connect" /\ call[p].pc = "handshake"
  /\ clients' = MapSet(clients, call[p].name, call[p].client)
  /\ Update(p, Throw(call[p], "ConnectionError"))
  /\ UNCHANGED <<nextId, closed, configPath>>

\* client.connect rejected: the catch block rethrows
ConnectHandshakeFail(p) ==
  /\ call[p].op = "connect" /\ call[p].pc = "handshake"
  /\ Update(p, Throw(call[p], "ConnectionError"))
  /\ UNCHANGED <<clients, nextId, closed, configPath>>

\* ---------------------------------------------------------- disconnectServer
\* disconnectServer up to `await client.close()`
DisconnectBegin(p, n) ==
  /\ call[p].pc = "idle"
  /\ LET r == [Idle EXCEPT !.op = "disconnect", !.name = n] IN
     IF MapGet(clients, n) = NoClient
     THEN Start(p, Throw(r, "NotConnected"))
     ELSE Start(p, [r EXCEPT !.pc = "closing", !.client = MapGet(clients, n)])
  /\ UNCHANGED <<clients, nextId, closed, configPath>>

\* client.close resolved: this.clients.delete(serverName)
DisconnectCloseOk(p) ==
  /\ call[p].op = "disconnect" /\ call[p].pc = "closing"
  /\ closed' = closed \cup {call[p].client}
  /\ clients' = MapDelete(clients, call[p].name)
  /\ Update(p, Return(call[p]))
  /\ UNCHANGED <<nextId, configPath>>

\* variant: the entry is dropped whether or not close succeeded
DisconnectCloseFailDrops(p) ==
  /\ call[p].op = "disconnect" /\ call[p].pc = "closing"
  /\ clients' = MapDelete(clients, call[p].name)
  /\ Update(p, Throw(call[p], "DisconnectError"))
  /\ UNCHANGED <<nextId, closed, configPath>>

\* client.close rejected: the catch block rethrows
DisconnectCloseFail(p) ==
  /\ call[p].op = "disconnect" /\ call[p].pc = "closing"
  /\ Update(p, Throw(call[p], "DisconnectError"))
  /\ UNCHANGED <<clients, nextId, closed, configPath>>

\* ------------------------------------------------------------- disconnectAll
\* one turn of the for loop of disconnectAll, up to the await inside
\* disconnectServer: a missing entry makes disconnectServer reject, and the
\* rejection leaves the loop
DisconnectAllTurn(r) ==
  IF r.todo = <<>> THEN Return(r)
  ELSE LET n == Head(r.todo) IN
       IF MapGet(clients, n) = NoClient
       THEN Throw([r EXCEPT !.name = n], "NotConnected")
       ELSE [r EXCEPT !.pc = "closing", !.name = n, !.sent = @ + 1,
                      !.client = MapGet(clients, n)]

\* disconnectAll: the snapshot of the names and the first turn
DisconnectAllBegin(p) ==
  /\ call[p].pc = "idle"
  /\ Start(p, DisconnectAllTurn([Idle EXCEPT !.op = "disconnectAll",
                                            !.todo = getConnectedServers,
                                            !.base = getConnectedServers]))
  /\ UNCHANGED <<clients, nextId, closed, configPath>>

\* close resolved inside disconnectAll: delete, then the loop resumes
DisconnectAllCloseOk(p) ==
  /\ call[p].op = "disconnectAll" /\ call[p].pc = "closing"
  /\ closed' = closed \cup {call[p].client}
  /\ clients' = MapDelete(clients, call[p].name)
  /\ Update(p, [call[p] EXCEPT !.pc = "resume", !.todo = Tail(@),
                               !.result = Append(@, call[p].name)])
  /\ UNCHANGED <<nextId, configPath>>

\* variant: best effort, the loop goes on to the next name
DisconnectAllCloseFailContinues(p) ==
  /\ call[p].op = "disconnectAll" /\ call[p].pc = "closing"
  /\ Update(p, [call[p] EXCEPT !.pc = "resume", !.todo = Tail(@)])
  /\ UNCHANGED <<clients, nextId, closed, configPath>>

\* close rejected inside disconnectAll: the error leaves the loop
DisconnectAllCloseFail(p) ==
  /\ call[p].op = "disconnectAll" /\ call[p].pc = "closing"
  /\ Update(p, Throw(call[p], "DisconnectError"))
  /\ UNCHANGED <<clients, nextId, closed, configPath>>

\* the loop of disconnectAll resumes after `await this.disconnectServer`
DisconnectAllResume(p) ==
  /\ call[p].op = "disconnectAll" /\ call[p].pc = "resume"
  /\ Update(p, DisconnectAllTurn(call[p]))
  /\ UNCHANGED <<clients, nextId, closed, configPath>>

\* -------------------------------------------------------------- loadFromConfig
\* connection parameters found in configuration files: a stdio entry that
\* passes validation and an http entry whose url does not parse
ConfigParams ==
  {[type |-> "absent", command |-> "cmd", url |-> "absent"],
   [type |-> "absent", command |-> "absent", url |-> "unparseable"]}

ConfigEntries == [name : Names, params : ConfigParams]

\* Object.entries(config.mcpServers): the keys of an object are distinct
ServerEntries ==
  {<<>>} \cup {<<e>> : e \in ConfigEntries}
         \cup {es \in ConfigEntries \X ConfigEntries : es[1].name # es[2].name}

\* what loadConfigFile finds: it throws, or returns the parsed document
ConfigFiles ==
  {[readable |-> FALSE, hasServers |-> FALSE, mcpServers |-> <<>>],
   [readable |-> TRUE, hasServers |-> FALSE, mcpServers |-> <<>>]}
  \cup {[readable |-> TRUE, hasServers |-> TRUE, mcpServers |-> es] :
          es \in ServerEntries}

EntryNames(es) == [i \in 1..Len(es) |-> es[i].name]

LoadLog == [attempted |-> <<>>, skipped |-> <<>>, ok |-> <<>>, failed |-> <<>>]

\* the for loop of loadFromConfig from its head up to the next await:
\* connected names are skipped without leaving the synchronous run; the first
\* other entry is handed to connectToServer, which rejects at once on a
\* validation error or suspends at the handshake with the Client `id`
RECURSIVE LoadTurn(_, _)
LoadTurn(r, id) ==
  IF r.todo = <<>> THEN Return(r)
  ELSE LET e == Head(r.todo) IN
       IF MapHas(clients, e.name)
       THEN LoadTurn([r EXCEPT !.todo = Tail(@),
                               !.result.skipped = Append(@, e.name)], id)
       ELSE LET a == [r EXCEPT !.todo = Tail(@), !.name = e.name,
                               !.result.attempted = Append(@, e.name)] IN
            IF ValidateParams(e.params) # ""
            THEN [a EXCEPT !.pc = "resume", !.err = ValidateParams(e.params),
                           !.result.failed = Append(@, e.name)]
            ELSE [a EXCEPT !.pc = "handshake", !.client = id,
                           !.handshakes = @ + 1]

\* a turn that constructs a Client takes the next identity
TakesClient(r) ==
  IF r.pc = "handshake"
  THEN nextId <= MaxClients /\ nextId' = nextId + 1
  ELSE UNCHANGED nextId

\* loadFromConfig from its head up to its first await, or to its end
LoadStart(path, file, id) ==
  LET r == [Idle EXCEPT !.op = "load", !.result = LoadLog,
                        !.base = getConnectedServers] IN
  IF path = "absent" /\ configPath = "absent"
  THEN Throw(r, "PathNotSpecified")
  ELSE IF ~file.readable THEN Throw(r, "ConfigFileError")
  ELSE IF ~file.hasServers \/ file.mcpServers = <<>> THEN Return(r)
  ELSE LoadTurn([r EXCEPT !.todo = file.mcpServers,
                          !.log = EntryNames(file.mcpServers)], id)

\* loadFromConfig: the path, the file, and the loop up to its first await
LoadBegin(p, path, file) ==
  /\ call[p].pc = "idle"
  /\ LET t == LoadStart(path, file, nextId) IN
     Start(p, t) /\ TakesClient(t)
  /\ UNCHANGED <<clients, closed, configPath>>

\* client.connect resolved inside loadFromConfig: the entry is registered
LoadHandshakeOk(p) ==
  /\ call[p].op = "load" /\ call[p].pc = "handshake"
  /\ clients' = MapSet(clients, call[p].name, call[p].client)
  /\ Update(p, [call[p] EXCEPT !.pc = "resume",
                               !.result.ok = Append(@, call[p].name)])
  /\ UNCHANGED <<nextId, closed, configPath>>

\* variant: a failed entry ends the load with its error
LoadHandshakeFailAborts(p) ==
  /\ call[p].op = "load" /\ call[p].pc = "handshake"
  /\ Update(p, Throw([call[p] EXCEPT !.result.failed = Append(@, call[p].name)],
                     "ConnectionError"))
  /\ UNCHANGED <<clients, nextId, closed, configPath>>

\* client.connect rejected inside loadFromConfig: the catch block logs it
LoadHandshakeFail(p) ==
  /\ call[p].op = "load" /\ call[p].pc = "handshake"
  /\ Update(p, [call[p] EXCEPT !.pc = "resume", !.err = "ConnectionError",
                               !.result.failed = Append(@, call[p].name)])
  /\ UNCHANGED <<clients, nextId, closed, configPath>>

\* the loop of loadFromConfig resumes after `await this.connectToServer`
LoadResume(p) ==
  /\ call[p].op = "load" /\ call[p].pc = "resume"
  /\ LET t == LoadTurn(call[p], nextId) IN
     Update(p, t) /\ TakesClient(t)
  /\ UNCHANGED <<clients, closed, configPath>>

\* ------------------------------------------------------------ strings, RegExp
\* a string is a sequence of characters; "" is the empty sequence
Lower(c) == IF c = "F" THEN "f" ELSE c

CharEq(c, d, ignoreCase) == IF ignoreCase THEN Lower(c) = Lower(d) ELSE c = d

\* `new RegExp(pattern)` throws a SyntaxError on an unmatched "("; the
\* patterns are otherwise literal text
Compiles(pattern) == \A i \in 1..Len(pattern) : pattern[i] # "("

\* the flags: "i" unless caseSensitive, "g" where the code passes it
RegExp(pattern, ignoreCase, global) ==
  [source |-> pattern, ignoreCase |-> ignoreCase, global |-> global,
   lastIndex |-> 0]

MatchAt(re, str, i) ==
  /\ i + Len(re.source) - 1 <= Len(str)
  /\ \A k \in 1..Len(re.source) :
       CharEq(re.source[k], str[i + k - 1], re.ignoreCase)

\* the first position >= from (counted from 1) where the pattern matches, or 0
FirstMatch(re, str, from) ==
  LET hits == {i \in from..(Len(str) + 1) : MatchAt(re, str, i)} IN
  IF hits = {} THEN 0 ELSE CHOOSE i \in hits : \A j \in hits : i <= j

\* RegExp.prototype.test: a global regex searches from lastIndex and moves it
\* behind the match, or back to 0 when there is none
Test(re, str) ==
  LET start == IF re.global THEN re.lastIndex ELSE 0
      at == IF start > Len(str) THEN 0 ELSE FirstMatch(re, str, start + 1) IN
  [found |-> at # 0,
   re |-> IF ~re.global THEN re
          ELSE [re EXCEPT !.lastIndex =
                  IF at = 0 THEN 0 ELSE at - 1 + Len(re.source)]]

\* -------------------------------------------------------------- tools, upstream
ReadFile == [name |-> <<"x", "F">>, description |-> <<>>, inputSchema |-> "S1"]
Find == [name |-> <<"f">>, description |-> <<"x">>, inputSchema |-> "S2"]
Stat == [name |-> <<"x">>, description |-> <<"f", "x">>, inputSchema |-> "S3"]

ToolLists ==
  {<<>>, <<ReadFile>>, <<Stat>>, <<ReadFile, Find>>, <<Find, ReadFile>>,
   <<Stat, Find>>}

\* what a list request brings back: a rejection, a response without a tool
\* array, or a tool array
Responses ==
  {[status |-> "fail", tools |-> <<>>], [status |-> "malformed", tools |-> <<>>]}
  \cup {[status |-> "ok", tools |-> ts] : ts \in ToolLists}

\* `toolsResponse.tools && Array.isArray(toolsResponse.tools)`
HasToolArray(resp) == resp.status = "ok"

\* variant: the descriptor is passed on whole
ProjectWhole(tool) == tool

\* the map callback of the find methods and of listToolsInServer
Project(tool) == [name |-> tool.name, description |-> tool.description]

ProjectAll(tools) == [i \in 1..Len(tools) |-> Project(tools[i])]

\* the filter callback of the find methods, run over the array in order with
\* the one regex object: both tests are evaluated for every tool
RECURSIVE FilterTools(_, _, _)
FilterTools(tools, re, searchIn) ==
  IF tools = <<>> THEN <<>>
  ELSE LET tool == Head(tools)
           nameMatch ==
             IF searchIn # "description" /\ tool.name # <<>>
             THEN Test(re, tool.name) ELSE [found |-> FALSE, re |-> re]
           descriptionMatch ==
             IF searchIn # "name" /\ tool.description # <<>>
             THEN Test(nameMatch.re, tool.description)
             ELSE [found |-> FALSE, re |-> nameMatch.re]
           rest == FilterTools(Tail(tools), descriptionMatch.re, searchIn) IN
       IF nameMatch.found \/ descriptionMatch.found
       THEN <<tool>> \o rest ELSE rest

\* variant: the names are compared without regard to case
FindByNameFolded(tools, toolName) ==
  LET same(a, b) == Len(a) = Len(b) /\ \A k \in 1..Len(a) : Lower(a[k]) = Lower(b[k])
      hits == {i \in 1..Len(tools) : same(tools[i].name, toolName)} IN
  IF hits = {} THEN <<>>
  ELSE <<tools[CHOOSE i \in hits : \A j \in hits : i <= j]>>

\* toolsResponse.tools.find(t => t.name === toolName): the first one, or <<>>
FindByName(tools, toolName) ==
  LET hits == {i \in 1..Len(tools) : tools[i].name = toolName} IN
  IF hits = {} THEN <<>>
  ELSE <<tools[CHOOSE i \in hits : \A j \in hits : i <= j]>>

\* --------------------------------------------------- the single-server queries
\* getClient and the request that follows it in the same synchronous run
QueryBegin(p, op, n, args) ==
  /\ call[p].pc = "idle"
  /\ LET r == [Idle EXCEPT !.op = op, !.name = n, !.args = args] IN
     IF getClient(n) = NoClient
     THEN Start(p, Throw(r, "NotConnected"))
     ELSE Start(p, [r EXCEPT !.pc = "request", !.client = getClient(n),
                             !.sent = 1])
  /\ UNCHANGED <<clients, nextId, closed, configPath>>

Answered(p, op) == call[p].op = op /\ call[p].pc = "request"

\* the call settles as r; log keeps what the upstream answered
Settled(p, r) ==
  /\ Update(p, r)
  /\ UNCHANGED <<clients, nextId, closed, configPath>>

Seen(r, resp) ==
  [r EXCEPT !.log = <<[server |-> r.name, status |-> resp.status,
                       tools |-> resp.tools]>>]

ListToolsBegin(p, n) == QueryBegin(p, "listTools", n, NoArgs)

\* variant: a listing some caller already holds for the server is reused
ListToolsAnswerCached(p, resp) ==
  /\ Answered(p, "listTools")
  /\ LET held == {q \in Callers : /\ call[q].op = "listTools"
                                  /\ call[q].outcome = "ok"
                                  /\ call[q].name = call[p].name} IN
     Settled(p, IF resp.status = "fail" THEN Throw(Seen(call[p], resp), "UpstreamError")
                ELSE IF held # {}
                THEN [Return(Seen(call[p], resp)) EXCEPT
                        !.result = call[CHOOSE q \in held : TRUE].result]
                ELSE [Return(Seen(call[p], resp)) EXCEPT !.result = resp])

\* listTools hands the response on as it came
ListToolsAnswer(p, resp) ==
  /\ Answered(p, "listTools")
  /\ Settled(p, IF resp.status = "fail" THEN Throw(Seen(call[p], resp), "UpstreamError")
                ELSE [Return(Seen(call[p], resp)) EXCEPT !.result = resp])

CallToolBegin(p, n, toolName) ==
  QueryBegin(p, "callTool", n, [NoArgs EXCEPT !.toolName = toolName])

\* variant: a session whose call failed is taken for dead and dropped
CallToolAnswerEvicts(p, ok) ==
  /\ Answered(p, "callTool")
  /\ clients' = IF ok THEN clients ELSE MapDelete(clients, call[p].name)
  /\ Update(p, IF ~ok THEN Throw(call[p], "UpstreamError")
               ELSE [Return(call[p]) EXCEPT
                       !.result = <<"resultOf", call[p].args.toolName>>])
  /\ UNCHANGED <<nextId, closed, configPath>>

\* callTool hands the upstream's result on as it came
CallToolAnswer(p, ok) ==
  /\ Answered(p, "callTool")
  /\ Settled(p, IF ~ok THEN Throw(call[p], "UpstreamError")
                ELSE [Return(call[p]) EXCEPT
                        !.result = <<"resultOf", call[p].args.toolName>>])

GetToolBegin(p, n, toolName) ==
  QueryBegin(p, "getTool", n, [NoArgs EXCEPT !.toolName = toolName])

GetToolAnswer(p, resp) ==
  /\ Answered(p, "getTool")
  /\ LET tool == FindByName(resp.tools, call[p].args.toolName) IN
     Settled(p, IF resp.status = "fail" THEN Throw(Seen(call[p], resp), "UpstreamError")
                ELSE IF ~HasToolArray(resp) THEN Throw(Seen(call[p], resp), "NoToolsFound")
                ELSE IF tool = <<>> THEN Throw(Seen(call[p], resp), "ToolNotFound")
                ELSE [Return(Seen(call[p], resp)) EXCEPT !.result = tool[1]])

ListToolsInServerBegin(p, n) == QueryBegin(p, "listToolsInServer", n, NoArgs)

\* variant: the server is taken to be unusable when it sends no tool array
ListToolsInServerAnswerStrict(p, resp) ==
  /\ Answered(p, "listToolsInServer")
  /\ Settled(p, IF resp.status = "fail" THEN Throw(Seen(call[p], resp), "UpstreamError")
                ELSE IF ~HasToolArray(resp)
                THEN Throw(Seen(call[p], resp), "NoToolsFound")
                ELSE [Return(Seen(call[p], resp)) EXCEPT !.result = ProjectAll(resp.tools)])

\* a response without a tool array counts as an empty list
ListToolsInServerAnswer(p, resp) ==
  /\ Answered(p, "listToolsInServer")
  /\ Settled(p, IF resp.status = "fail" THEN Throw(Seen(call[p], resp), "UpstreamError")
                ELSE IF ~HasToolArray(resp)
                THEN [Return(Seen(call[p], resp)) EXCEPT !.result = <<>>]
                ELSE [Return(Seen(call[p], resp)) EXCEPT !.result = ProjectAll(resp.tools)])

FindToolsInServerBegin(p, n, pattern, searchIn, caseSensitive) ==
  QueryBegin(p, "findToolsInServer", n,
             [NoArgs EXCEPT !.pattern = pattern, !.searchIn = searchIn,
                            !.caseSensitive = caseSensitive])

\* what findToolsInServer returns for a tool array and arguments: one regex
\* object with the "g" flag filters the whole array
FindToolsInServerResult(tools, a) ==
  ProjectAll(FilterTools(tools, RegExp(a.pattern, ~a.caseSensitive, TRUE),
                         a.searchIn))

\* the regex is built after the response has arrived
FindToolsInServerAnswer(p, resp) ==
  /\ Answered(p, "findToolsInServer")
  /\ LET a == call[p].args IN
     Settled(p, IF resp.status = "fail" THEN Throw(Seen(call[p], resp), "UpstreamError")
                ELSE IF ~HasToolArray(resp)
                THEN [Return(Seen(call[p], resp)) EXCEPT !.result = <<>>]
                ELSE IF ~Compiles(a.pattern) THEN Throw(Seen(call[p], resp), "SyntaxError")
                ELSE [Return(Seen(call[p], resp)) EXCEPT !.result =
                        FindToolsInServerResult(resp.tools, a)])

\* -------------------------------------------------------------------- findTools
\* one turn of the for loop of findTools up to `await this.listTools`:
\* listTools sends the request, or rejects when getClient throws
FindToolsTurn(r) ==
  IF r.todo = <<>> THEN Return(r)
  ELSE LET n == Head(r.todo) IN
       IF getClient(n) = NoClient
       THEN [r EXCEPT !.pc = "request", !.name = n, !.client = NoClient]
       ELSE [r EXCEPT !.pc = "request", !.name = n, !.client = getClient(n),
                      !.sent = @ + 1]

\* findTools: the snapshot of the names, the regex, and the first turn
FindToolsBegin(p, pattern, searchIn, caseSensitive) ==
  /\ call[p].pc = "idle"
  /\ LET r == [Idle EXCEPT !.op = "findTools", !.todo = getConnectedServers,
                           !.base = getConnectedServers,
                           !.args = [NoArgs EXCEPT !.pattern = pattern,
                                       !.searchIn = searchIn,
                                       !.caseSensitive = caseSensitive]] IN
     IF getConnectedServers = <<>> THEN Start(p, Return(r))
     ELSE IF ~Compiles(pattern) THEN Start(p, Throw(r, "InvalidPattern"))
     ELSE Start(p, FindToolsTurn(r))
  /\ UNCHANGED <<clients, nextId, closed, configPath>>

\* results[serverName] = value
Put(results, n, value) ==
  [m \in DOMAIN results \cup {n} |-> IF m = n THEN value ELSE results[m]]

\* variant: a failing server replaces the results gathered so far
FindToolsEntryAborts(r, resp) ==
  IF r.client = NoClient \/ resp.status = "fail"
  THEN [m \in {r.name} |-> <<[error |-> "UpstreamError"]>>]
  ELSE LET a == r.args
           regex == RegExp(a.pattern, ~a.caseSensitive, FALSE)
           matchedTools ==
             ProjectAll(FilterTools(resp.tools, regex, a.searchIn)) IN
       IF HasToolArray(resp) /\ Len(matchedTools) > 0
       THEN Put(r.result, r.name, matchedTools) ELSE r.result

\* what one server's answer adds to the results of findTools
FindToolsEntry(r, resp) ==
  LET a == r.args
      regex == RegExp(a.pattern, ~a.caseSensitive, FALSE)
      matchedTools == ProjectAll(FilterTools(resp.tools, regex, a.searchIn)) IN
  IF r.client = NoClient
  THEN Put(r.result, r.name, <<[error |-> "NotConnected"]>>)
  ELSE IF resp.status = "fail"
  THEN Put(r.result, r.name, <<[error |-> "UpstreamError"]>>)
  ELSE IF HasToolArray(resp) /\ Len(matchedTools) > 0
  THEN Put(r.result, r.name, matchedTools)
  ELSE r.result

\* the answer of one server arrives, or the rejection of listTools is caught;
\* the loop goes on to the next name
FindToolsAnswer(p, resp) ==
  /\ call[p].op = "findTools" /\ call[p].pc = "request"
  /\ LET r == call[p]
         seen == [server |-> r.name,
                  status |-> IF r.client = NoClient THEN "absent" ELSE resp.status,
                  tools |-> IF r.client = NoClient THEN <<>> ELSE resp.tools] IN
     Settled(p, FindToolsTurn([r EXCEPT !.result = FindToolsEntry(r, resp),
                                        !.todo = Tail(@),
                                        !.log = Append(@, seen)]))

\* the caller takes the settled promise
Settle(p) ==
  /\ call[p].pc = "done"
  /\ Update(p, Idle)
  /\ UNCHANGED <<clients, nextId, closed, configPath>>

Init ==
  /\ clients = <<>>
  /\ nextId = 1
  /\ closed = {}
  /\ configPath \in Paths
  /\ call = [p \in Callers |-> Idle]

\* ---------------------------------------------------------------- constructor
Options == [configPath : Paths, autoLoad : BOOLEAN]

\* options?.configPath || findConfigPath()
ResolvePath(options, found) ==
  IF options.configPath # "absent" THEN options.configPath ELSE found

\* loadFromConfig is an async method: whatever it throws, before its first
\* await too, rejects the promise it returns; the call expression in the
\* constructor's try block never throws
CallThrows(r) == FALSE

\* the call `this.loadFromConfig(this.configPath)` made by the constructor:
\* the promise is neither awaited nor given a rejection handler, so only the
\* constructor's catch block could take its failure
ConstructorLoad(file) ==
  LET r == LoadStart(configPath, file, 1) IN
  [r EXCEPT !.handler = IF CallThrows(r) THEN "constructorCatch" ELSE "none"]

\* the state after `new McpServerManager(options)`: with autoLoad and a path
\* the load is in flight (or already settled) when the constructor returns
InitCtor ==
  /\ clients = <<>>
  /\ closed = {}
  /\ \E options \in Options, found \in Paths, file \in ConfigFiles :
       /\ configPath = ResolvePath(options, found)
       /\ IF options.autoLoad /\ configPath # "absent"
          THEN /\ call = [p \in Callers |->
                           IF p = "p1" THEN ConstructorLoad(file) ELSE Idle]
               /\ nextId = IF ConstructorLoad(file).pc = "handshake" THEN 2 ELSE 1
          ELSE /\ call = [p \in Callers |-> Idle]
               /\ nextId = 1

\* ------------------------------------------------------------ specifications
\* the inputs of the query methods
Patterns == {<<"f">>, <<"F">>, <<"x", "f">>, <<"f", "x">>, <<"(">>, <<"f", "(">>}
SearchIns == {"name", "description", "both"}
ToolNames == {<<"x", "F">>, <<"x", "f">>, <<"f">>, <<"x">>}

\* the inputs used where two callers overlap
FewPatterns == {<<"f">>, <<"(">>}
FewResponses ==
  {[status |-> "fail", tools |-> <<>>], [status |-> "malformed", tools |-> <<>>],
   [status |-> "ok", tools |-> <<Stat>>],
   [status |-> "ok", tools |-> <<ReadFile, Find>>]}

\* connect / disconnect / disconnectAll / loadFromConfig, two callers
Next ==
  \/ \E p \in Callers, n \in Names, params \in Params : ConnectBegin(p, n, params)
  \/ \E p \in Callers : ConnectHandshakeOk(p)
  \/ \E p \in Callers : ConnectHandshakeFail(p)
  \/ \E p \in Callers, n \in Names : DisconnectBegin(p, n)
  \/ \E p \in Callers : DisconnectCloseOk(p)
  \/ \E p \in Callers : DisconnectCloseFail(p)
  \/ \E p \in Callers : DisconnectAllBegin(p)
  \/ \E p \in Callers : DisconnectAllCloseOk(p)
  \/ \E p \in Callers : DisconnectAllCloseFail(p)
  \/ \E p \in Callers : DisconnectAllResume(p)
  \/ \E p \in Callers, path \in Paths, file \in ConfigFiles : LoadBegin(p, path, file)
  \/ \E p \in Callers : LoadHandshakeOk(p)
  \/ \E p \in Callers : LoadHandshakeFail(p)
  \/ \E p \in Callers : LoadResume(p)
  \/ \E p \in Callers : Settle(p)

Spec == Init /\ [][Next]_vars

\* the queries against connect / disconnect, two callers
NextQuery ==
  \/ \E p \in Callers, n \in Names, params \in ConfigParams : ConnectBegin(p, n, params)
  \/ \E p \in Callers : ConnectHandshakeOk(p)
  \/ \E p \in Callers : ConnectHandshakeFail(p)
  \/ \E p \in Callers, n \in Names : DisconnectBegin(p, n)
  \/ \E p \in Callers : DisconnectCloseOk(p)
  \/ \E p \in Callers : DisconnectCloseFail(p)
  \/ \E p \in Callers, n \in Names : ListToolsBegin(p, n)
  \/ \E p \in Callers, resp \in FewResponses : ListToolsAnswer(p, resp)
  \/ \E p \in Callers, n \in Names : CallToolBegin(p, n, <<"f">>)
  \/ \E p \in Callers, ok \in BOOLEAN : CallToolAnswer(p, ok)
  \/ \E p \in Callers, n \in Names : GetToolBegin(p, n, <<"f">>)
  \/ \E p \in Callers, resp \in FewResponses : GetToolAnswer(p, resp)
  \/ \E p \in Callers, n \in Names : ListToolsInServerBegin(p, n)
  \/ \E p \in Callers, resp \in FewResponses : ListToolsInServerAnswer(p, resp)
  \/ \E p \in Callers, n \in Names, pattern \in FewPatterns :
       FindToolsInServerBegin(p, n, pattern, "both", FALSE)
  \/ \E p \in Callers, resp \in FewResponses : FindToolsInServerAnswer(p, resp)
  \/ \E p \in Callers, pattern \in FewPatterns : FindToolsBegin(p, pattern, "both", FALSE)
  \/ \E p \in Callers, resp \in FewResponses : FindToolsAnswer(p, resp)
  \/ \E p \in Callers : Settle(p)

SpecQuery == Init /\ [][NextQuery]_vars

\* every method with every input, one caller: no two calls overlap
NextSeq ==
  \/ \E n \in Names, params \in Params : ConnectBegin("p1", n, params)
  \/ ConnectHandshakeOk("p1")
  \/ ConnectHandshakeFail("p1")
  \/ \E n \in Names : DisconnectBegin("p1", n)
  \/ DisconnectCloseOk("p1")
  \/ DisconnectCloseFail("p1")
  \/ DisconnectAllBegin("p1")
  \/ DisconnectAllCloseOk("p1")
  \/ DisconnectAllCloseFail("p1")
  \/ DisconnectAllResume("p1")
  \/ \E path \in Paths, file \in ConfigFiles : LoadBegin("p1", path, file)
  \/ LoadHandshakeOk("p1")
  \/ LoadHandshakeFail("p1")
  \/ LoadResume("p1")
  \/ \E n \in Names : ListToolsBegin("p1", n)
  \/ \E resp \in Responses : ListToolsAnswer("p1", resp)
  \/ \E n \in Names, toolName \in ToolNames : CallToolBegin("p1", n, toolName)
  \/ \E ok \in BOOLEAN : CallToolAnswer("p1", ok)
  \/ \E n \in Names, toolName \in ToolNames : GetToolBegin("p1", n, toolName)
  \/ \E resp \in Responses : GetToolAnswer("p1", resp)
  \/ \E n \in Names : ListToolsInServerBegin("p1", n)
  \/ \E resp \in Responses : ListToolsInServerAnswer("p1", resp)
  \/ \E n \in Names, pattern \in Patterns, searchIn \in SearchIns,
        caseSensitive \in BOOLEAN :
       FindToolsInServerBegin("p1", n, pattern, searchIn, caseSensitive)
  \/ \E resp \in Responses : FindToolsInServerAnswer("p1", resp)
  \/ \E pattern \in Patterns, searchIn \in SearchIns, caseSensitive \in BOOLEAN :
       FindToolsBegin("p1", pattern, searchIn, caseSensitive)
  \/ \E resp \in Responses : FindToolsAnswer("p1", resp)
  \/ Settle("p1")

SpecSeq == Init /\ [][NextSeq]_vars

\* the constructor's load and the lifecycle methods of one caller after it
NextCtor ==
  \/ \E n \in Names, params \in ConfigParams : ConnectBegin("p1", n, params)
  \/ ConnectHandshakeOk("p1")
  \/ ConnectHandshakeFail("p1")
  \/ \E n \in Names : DisconnectBegin("p1", n)
  \/ DisconnectCloseOk("p1")
  \/ DisconnectCloseFail("p1")
  \/ \E path \in Paths, file \in ConfigFiles : LoadBegin("p1", path, file)
  \/ LoadHandshakeOk("p1")
  \/ LoadHandshakeFail("p1")
  \/ LoadResume("p1")
  \/ Settle("p1")

SpecCtor == InitCtor /\ [][NextCtor]_vars

\* ------------------------------------------------------------------ properties
Keys(m) == Range(MapKeys(m))

Occurrences(m, n) == Cardinality({i \in 1..Len(m) : m[i].name = n})

Begins(p, op) == call[p].pc = "idle" /\ call'[p].op = op

Ends(p, op) == call[p].op = op /\ call[p].pc # "done" /\ call'[p].pc = "done"

Failed(r) == r.pc = "done" /\ r.outcome = "error"

Succeeded(r) == r.pc = "done" /\ r.outcome = "ok"

\* C1: when connectToServer(n) succeeds, n is listed exactly once; a
\* connectToServer(n) issued while n is registered fails with 'Already
\* connected', starts no handshake, constructs no client and leaves the
\* registry, and so the session under n, as it was.
C1_ConnectOnceThenRefused ==
  [][\A p \in Callers :
       /\ (Ends(p, "connect") /\ Succeeded(call'[p]))
             => Occurrences(clients', call[p].name) = 1
       /\ (Begins(p, "connect") /\ MapHas(clients, call'[p].name))
             => /\ Failed(call'[p]) /\ call'[p].err = "AlreadyConnected"
                /\ call'[p].handshakes = 0
                /\ nextId' = nextId
                /\ clients' = clients]_vars

C1_Witness ==
  \E p \in Callers :
    /\ call[p].op = "connect" /\ Failed(call[p])
    /\ call[p].err = "AlreadyConnected"
    /\ Occurrences(clients, call[p].name) = 1

\* C2: a session registered under a name is never replaced by another session
\* while the name stays registered, so that of the connectToServer calls that
\* overlap on one name at most one registers its session.
C2_NoSilentReplacement ==
  [][\A n \in Names :
       (MapHas(clients, n) /\ MapHas(clients', n))
          => MapGet(clients', n) = MapGet(clients, n)]_vars

\* C3: listTools, callTool, getTool, listToolsInServer and findToolsInServer
\* on a name without a registry entry fail with 'Not connected' and send no
\* request upstream.
SingleServerQueries ==
  {"listTools", "callTool", "getTool", "listToolsInServer", "findToolsInServer"}

C3_UnconnectedQueriesFail ==
  [][\A p \in Callers :
       (/\ call[p].pc = "idle"
        /\ call'[p].op \in SingleServerQueries
        /\ ~MapHas(clients, call'[p].name))
          => /\ Failed(call'[p]) /\ call'[p].err = "NotConnected"
             /\ call'[p].sent = 0]_vars

C3_Witness ==
  /\ clients # <<>>
  /\ \E p \in Callers :
       /\ call[p].op = "callTool" /\ Failed(call[p])
       /\ call[p].err = "NotConnected" /\ call[p].sent = 0

\* C4: disconnectServer(n) on a registered name: when close succeeds n is gone
\* from the registry; when close fails the call fails with a disconnect error
\* and n stays registered with the session it had; every other entry is as it
\* was in both cases.
OthersUnchanged(n) ==
  /\ MapDelete(clients', n) = MapDelete(clients, n)

C4_DisconnectOutcome ==
  [][\A p \in Callers :
       Ends(p, "disconnect") /\ call[p].pc = "closing"
         => /\ OthersUnchanged(call[p].name)
            /\ Succeeded(call'[p]) => ~MapHas(clients', call[p].name)
            /\ Failed(call'[p])
                 => /\ call'[p].err = "DisconnectError"
                    /\ MapGet(clients', call[p].name) = call[p].client
                    /\ clients' = clients]_vars

C4_Witness ==
  \E p \in Callers :
    /\ call[p].op = "disconnect" /\ Failed(call[p])
    /\ call[p].err = "DisconnectError"
    /\ Len(clients) = 2
    /\ MapGet(clients, call[p].name) = call[p].client

\* the pattern occurs somewhere in the string
Occurs(pattern, str, ignoreCase) ==
  \E i \in 1..(Len(str) - Len(pattern) + 1) :
    \A k \in 1..Len(pattern) : CharEq(pattern[k], str[i + k - 1], ignoreCase)

ToolMatches(tool, a) ==
  \/ /\ a.searchIn # "description" /\ tool.name # <<>>
     /\ Occurs(a.pattern, tool.name, ~a.caseSensitive)
  \/ /\ a.searchIn # "name" /\ tool.description # <<>>
     /\ Occurs(a.pattern, tool.description, ~a.caseSensitive)

\* the matching tools of a list, in its order, as name and description
Matching(tools, a) ==
  LET hits == SelectSeq(tools, LAMBDA t : ToolMatches(t, a)) IN
  [i \in 1..Len(hits) |->
     [name |-> hits[i].name, description |-> hits[i].description]]

IsErrorEntry(list) == Len(list) = 1 /\ DOMAIN list[1] = {"error"}

\* C5: findTools with a pattern that compiles never fails; however the
\* servers are ordered, its result holds a one-element error list for every
\* server whose list request failed or whose entry had gone, and the matches
\* of every server that answered with matching tools.
C5_FindToolsIsolatesFailures ==
  \A p \in Callers :
    (call[p].op = "findTools" /\ Compiles(call[p].args.pattern))
      => /\ call[p].outcome # "error"
         /\ call[p].pc = "done" => Len(call[p].log) = Len(call[p].base)
         /\ \A i \in 1..Len(call[p].log) :
              LET e == call[p].log[i]
                  res == call[p].result IN
              /\ e.status \in {"fail", "absent"}
                   => e.server \in DOMAIN res /\ IsErrorEntry(res[e.server])
              /\ (e.status = "ok" /\ Matching(e.tools, call[p].args) # <<>>)
                   => /\ e.server \in DOMAIN res
                      /\ res[e.server] = Matching(e.tools, call[p].args)

C5_Witness ==
  \E p \in Callers :
    /\ call[p].op = "findTools" /\ Succeeded(call[p])
    /\ Len(call[p].log) = 2
    /\ call[p].log[1].status = "fail"
    /\ call[p].log[2].status = "ok"
    /\ call[p].log[2].server \in DOMAIN call[p].result
    /\ IsErrorEntry(call[p].result[call[p].log[1].server])

\* C6: findTools with a pattern that does not compile fails with an invalid
\* pattern error in every registry state, before any list request is sent,
\* and never returns a result map.
C6_InvalidPatternAlwaysFails ==
  \A p \in Callers :
    (/\ call[p].op = "findTools" /\ call[p].pc = "done"
     /\ ~Compiles(call[p].args.pattern))
      => /\ Failed(call[p]) /\ call[p].err = "InvalidPattern"
         /\ call[p].sent = 0

\* C7: a connectToServer call that fails, at the name check, at validation or
\* at the handshake, reports an error and changes nothing in the registry in
\* any of its steps; the same holds for the attempts made by loadFromConfig.
FailedAttempts(r) == IF r.op = "load" THEN r.result.failed ELSE <<>>

C7_FailedConnectLeavesRegistry ==
  [][\A p \in Callers :
       /\ (/\ call'[p].op = "connect" /\ call'[p] # call[p]
           /\ ~Succeeded(call'[p]))
            => /\ clients' = clients
               /\ call'[p].pc = "done"
                    => Failed(call'[p]) /\ call'[p].err # ""
       /\ (/\ call'[p].op = "load"
           /\ FailedAttempts(call'[p]) # FailedAttempts(call[p]))
            => clients' = clients]_vars

C7_Witness ==
  \E p \in Callers :
    /\ call[p].op = "connect" /\ Failed(call[p])
    /\ call[p].err = "ConnectionError"
    /\ clients # <<>>
    /\ ~MapHas(clients, call[p].name)

\* C8: loadFromConfig over a parsed configuration skips exactly the entries
\* whose name is connected, attempts every other entry once, goes on after a
\* failed attempt and returns normally; the registry then holds the names
\* connected before plus exactly the entries whose attempt succeeded.
C8_LoadIsolatesEntries ==
  \A p \in Callers :
    (/\ call[p].op = "load" /\ call[p].pc = "done"
     /\ call[p].err \notin {"PathNotSpecified", "ConfigFileError"})
      => LET l == call[p].result
             entries == Range(call[p].log)
             before == Range(call[p].base) IN
         /\ Succeeded(call[p])
         /\ Range(l.skipped) = entries \cap before
         /\ Range(l.attempted) = entries \ before
         /\ Len(l.attempted) = Cardinality(Range(l.attempted))
         /\ Range(l.ok) \cup Range(l.failed) = Range(l.attempted)
         /\ Range(l.ok) \cap Range(l.failed) = {}
         /\ call[p].handshakes <= Len(l.attempted)
         /\ Keys(clients) = before \cup Range(l.ok)

C8_Witness ==
  \E p \in Callers :
    /\ call[p].op = "load" /\ Succeeded(call[p])
    /\ call[p].result.attempted = <<"a", "b">>
    /\ call[p].result.failed = <<"a">>
    /\ call[p].result.ok = <<"b">>
    /\ call[p].handshakes = 2

\* C9: disconnectAll closes the names of its snapshot one at a time in
\* snapshot order; when one close fails the call fails with that error, no
\* close is requested for a later name, the later names stay registered and
\* the earlier ones are gone.
C9_DisconnectAllFailFast ==
  [][\A p \in Callers :
       /\ Begins(p, "disconnectAll")
            => /\ call'[p].base = getConnectedServers
               /\ call'[p].todo = call'[p].base
       /\ (call'[p].op = "disconnectAll" /\ call'[p].pc = "closing")
            => /\ call'[p].name = Head(call'[p].todo)
               /\ call'[p].result \o call'[p].todo = call'[p].base
               /\ call'[p].sent = Len(call'[p].result) + 1
       /\ (/\ call[p].op = "disconnectAll" /\ call[p].pc = "closing"
           /\ call'[p] # call[p] /\ MapHas(clients', call[p].name))
            => /\ Failed(call'[p]) /\ call'[p].err = "DisconnectError"
               /\ call'[p].sent = call[p].sent
               /\ call'[p].todo = call[p].todo
               /\ \A n \in Range(call'[p].todo) : MapHas(clients', n)
               /\ \A n \in Range(call'[p].result) : ~MapHas(clients', n)]_vars

C9_Witness ==
  \E p \in Callers :
    /\ call[p].op = "disconnectAll" /\ Failed(call[p])
    /\ call[p].err = "DisconnectError"
    /\ Len(call[p].todo) = 2 /\ call[p].sent = 1
    /\ Keys(clients) = Range(call[p].todo)

\* C10: the descriptors returned by findToolsInServer and findTools hold the
\* name and the description and nothing else; getTool returns a descriptor of
\* the upstream's list, under the name asked for, with its input schema.
IsTrimmed(d) == DOMAIN d = {"name", "description"}

C12_FindInServerMatchesEachTool ==
  \A p \in Callers :
    (call[p].op = "findToolsInServer" /\ Succeeded(call[p]))
      => call[p].result = Matching(call[p].log[1].tools, call[p].args)

\* C13: for every server that answered findTools with a tool array, the result
\* of findTools has the server's key exactly when findToolsInServer returns a
\* non-empty list for the same array and arguments, and then holds that list.
C13_FindToolsAgreesWithInServer ==
  \A p \in Callers :
    (call[p].op = "findTools" /\ Succeeded(call[p]))
      => \A i \in 1..Len(call[p].log) :
           LET e == call[p].log[i]
               inServer == FindToolsInServerResult(e.tools, call[p].args) IN
           e.status = "ok"
             => /\ (e.server \in DOMAIN call[p].result) <=> (inServer # <<>>)
                /\ e.server \in DOMAIN call[p].result
                     => call[p].result[e.server] = inServer

\* C14: getTool on a fetched tool array succeeds exactly when a descriptor
\* bears the name asked for, compared exactly and with case, and returns such
\* a descriptor of the array; otherwise it fails with tool-not-found.
C14_GetToolExactName ==
  \A p \in Callers :
    (call[p].op = "getTool" /\ call[p].pc = "done" /\ call[p].log # <<>>
     /\ call[p].log[1].status = "ok")
      => LET tools == call[p].log[1].tools
             named == {i \in 1..Len(tools) : tools[i].name = call[p].args.toolName} IN
         /\ Succeeded(call[p]) <=> named # {}
         /\ Succeeded(call[p])
              => \E i \in named : call[p].result = tools[i]
         /\ Failed(call[p]) => call[p].err = "ToolNotFound"

C14_Witness ==
  \E p \in Callers :
    /\ call[p].op = "getTool" /\ Failed(call[p])
    /\ call[p].err = "ToolNotFound"
    /\ call[p].args.toolName = <<"x", "f">>
    /\ call[p].log[1].tools = <<ReadFile, Find>>

\* C15: connectToServer takes the explicit type, else stdio when a command is
\* given and http when it is not; when the field that kind needs is invalid
\* (url missing or unparseable for http, command missing or empty for stdio)
\* the call fails with 'requires a URL' / 'requires a command' before a
\* client or handshake exists and without touching the registry.
SelectedKind(params) ==
  IF params.type # "absent" THEN params.type
  ELSE IF params.command = "cmd" THEN "stdio" ELSE "http"

RequiredFieldInvalid(params) ==
  IF SelectedKind(params) = "http"
  THEN params.url \in {"absent", "empty", "unparseable"}
  ELSE params.command \in {"absent", "empty"}

C15_InvalidParamsAreConfigErrors ==
  [][\A p \in Callers, n \in Names, params \in Params :
       (/\ ConnectBegin(p, n, params)
        /\ ~MapHas(clients, n)
        /\ RequiredFieldInvalid(params))
         => /\ Failed(call'[p])
            /\ call'[p].err = IF SelectedKind(params) = "http"
                              THEN "RequiresUrl" ELSE "RequiresCommand"
            /\ call'[p].handshakes = 0
            /\ nextId' = nextId
            /\ clients' = clients]_vars

\* C16: no step of listTools, listToolsInServer, getTool, findToolsInServer,
\* findTools or callTool, whether the call succeeds or fails, changes the
\* registry: the names and the client under each name stay as they were.
QueryMethods == SingleServerQueries \cup {"findTools"}

C16_QueriesLeaveRegistry ==
  [][\A p \in Callers :
       (call'[p].op \in QueryMethods /\ call'[p] # call[p])
         => /\ clients' = clients
            /\ listServers' = listServers
            /\ closed' = closed]_vars

C16_Witness ==
  \E p \in Callers :
    /\ call[p].op = "callTool" /\ Failed(call[p])
    /\ call[p].err = "UpstreamError"
    /\ Len(clients) = 2
    /\ MapGet(clients, call[p].name) = call[p].client

\* C17: an entry leaves the registry only when the client it holds at that
\* moment has been closed successfully, so that no client that completed its
\* handshake and was never closed ends up outside the registry.
C17_RemovedEntryWasClosed ==
  [][\A n \in Names :
       (MapHas(clients, n) /\ ~MapHas(clients', n))
          => MapGet(clients, n) \in closed']_vars

\* C18: every listing call sends its own list request, one per server asked,
\* and its result is made of what the upstream answered to that request; two
\* calls on one server may therefore return different listings.
FromAnswer(list, tools) ==
  \A i \in 1..Len(list) :
    \E j \in 1..Len(tools) :
      /\ list[i].name = tools[j].name
      /\ list[i].description = tools[j].description

C18_ListingsAreLive ==
  \A p \in Callers :
    Succeeded(call[p]) =>
      /\ call[p].op \in {"listTools", "listToolsInServer", "getTool",
                         "findToolsInServer"}
           => /\ call[p].sent = 1 /\ Len(call[p].log) = 1
              /\ call[p].log[1].server = call[p].name
      /\ call[p].op = "listTools"
           => /\ call[p].result.status = call[p].log[1].status
              /\ call[p].result.tools = call[p].log[1].tools
      /\ call[p].op = "listToolsInServer"
           => /\ Len(call[p].result) = Len(call[p].log[1].tools)
              /\ FromAnswer(call[p].result, call[p].log[1].tools)
      /\ call[p].op = "getTool"
           => call[p].result \in Range(call[p].log[1].tools)
      /\ call[p].op = "findToolsInServer"
           => FromAnswer(call[p].result, call[p].log[1].tools)
      /\ call[p].op = "findTools"
           => /\ call[p].sent =
                   Cardinality({i \in 1..Len(call[p].log) :
                                  call[p].log[i].status # "absent"})
              /\ \A i \in 1..Len(call[p].log) :
                   LET e == call[p].log[i] IN
                   (e.status = "ok" /\ e.server \in DOMAIN call[p].result)
                      => FromAnswer(call[p].result[e.server], e.tools)

C18_Witness ==
  \E p, q \in Callers :
    /\ p # q
    /\ call[p].op = "listTools" /\ Succeeded(call[p])
    /\ call[q].op = "listTools" /\ Succeeded(call[q])
    /\ call[p].name = call[q].name
    /\ call[p].result.tools = <<Stat>>
    /\ call[q].result.tools = <<ReadFile, Find>>

\* C19: a disconnectAll none of whose own closes fails completes without
\* raising, whatever disconnectServer calls run beside it.
C19_DisconnectAllCompletes ==
  \A p \in Callers :
    (/\ call[p].op = "disconnectAll" /\ call[p].pc = "done"
     /\ call[p].err # "DisconnectError")
      => Succeeded(call[p])

\* C20: when the load started by the constructor fails, the failure is taken
\* by the constructor's catch block, so that no rejected promise is left
\* without a handler, and the load has registered nothing.
C20_ConstructorCatchesLoadFailure ==
  \A p \in Callers :
    (call[p].op = "load" /\ call[p].handler # "caller" /\ Failed(call[p]))
      => /\ call[p].handler = "constructorCatch"
         /\ call[p].result.ok = <<>>
         /\ clients = <<>>
====
